---------------------------- MODULE Spec2Model ----------------------------
(***************************************************************************)
(* A model of go-coin's validation-and-mining engine (src/types.go,        *)
(* src/node.go, and the genesis scenario of the demo entry point).         *)
(*                                                                         *)
(* Modelling conventions                                                   *)
(*  - sha256 is collision free: a digest is the record [pre |-> s] of the  *)
(*    byte stream s that was written to the hasher.  The stream is a flat  *)
(*    sequence, so two different field layouts that concatenate to the     *)
(*    same bytes give the same digest, as in the code.  The bytes of a     *)
(*    block digest are unknown until they are inspected; the variable sha  *)
(*    records them (one value per preimage, chosen when first inspected).  *)
(*  - uint32 arithmetic wraps modulo 2^UintBits; the 32-bit nonce wraps    *)
(*    modulo 2^NonceBits.                                                  *)
(*  - an ECDSA signature is the pair (signing key, signed digest); it      *)
(*    verifies under exactly the public key of the signing key and the     *)
(*    signed digest.                                                       *)
(*  - BlockBody is a heap object: a Block holds the address of its body,   *)
(*    so that two Blocks built over one *BlockBody share its Nonce/Time.   *)
(***************************************************************************)
EXTENDS Integers, Sequences, FiniteSets, TLC

(***************************************************************************)
(* Program constants                                                       *)
(***************************************************************************)
CurrentVersion == 1

GenesisId == 0

MinimumRequiredLeadingZeros == 1

MiningReward == 10

(***************************************************************************)
(* Bounds of the model                                                     *)
(***************************************************************************)
\* width of the modelled uint32 (values wrap modulo 2^UintBits)
UintBits == 4

\* width of the modelled 32-bit nonce
NonceBits == 2

\* the wall clock runs from 1 to MaxClock
MaxClock == 2

\* at most MaxMineCalls calls of Mine are made in a run
MaxMineCalls == 2

UintMod == 2 ^ UintBits

NonceMod == 2 ^ NonceBits

\* uint32 addition and subtraction
AddU32(a, b) == (a + b) % UintMod

SubU32(a, b) == (a - b + 2 * UintMod) % UintMod

(***************************************************************************)
(* Keys and signatures (crypto/ecdsa)                                      *)
(***************************************************************************)
Keys == {"alice", "bob"}

\* priv.PublicKey
PublicKey(priv) == [pub |-> priv]

\* ecdsa.Sign(rand.Reader, priv, bodyHash)
Sign(priv, digest) == [signer |-> priv, signed |-> digest]

\* ecdsa.Verify(pub, bodyHash, R, S)
Verify(pub, digest, sig) == pub = PublicKey(sig.signer) /\ sig.signed = digest

(***************************************************************************)
(* Hashing (src/types.go)                                                  *)
(***************************************************************************)
sha256(stream) == [pre |-> stream]

\* TransactionBody.hash: the input hashes, the compressed next owner, then
\* InputValue, Change and Fee, each little-endian on 4 bytes
hash(body) ==
    sha256(body.InputTransactionHashes
             \o <<body.NextOwner, body.InputValue, body.Change, body.Fee>>)

\* NewTransaction: one signature per private key, in order, whatever isCoinbase
NewTransaction(body, privs, isCoinbase) ==
    LET bodyHash == hash(body)
    IN  [Body            |-> body,
         BodyHash        |-> bodyHash,
         OwnerSignatures |-> [i \in 1..Len(privs) |-> Sign(privs[i], bodyHash)],
         isCoinbase      |-> isCoinbase]

\* Transaction.OutputValue (uint32 subtraction, unchecked)
OutputValue(t) ==
    IF ~t.isCoinbase
    THEN SubU32(SubU32(t.Body.InputValue, t.Body.Change), t.Body.Fee)
    ELSE t.Body.InputValue

\* the BodyHash of each transaction of a list, in list order
TxHashes(txs) == [i \in 1..Len(txs) |-> txs[i].BodyHash]

\* BlockBody.staticHash: Version, Id, the raw PrevHash bytes, then every
\* transaction's BodyHash; Nonce and Time are skipped
staticHash(body) ==
    sha256(<<body.Version, body.Id>> \o body.PrevHash \o TxHashes(body.Transactions))

\* time.Time.MarshalText
MarshalText(time) == [rfc3339 |-> time]

\* calculateBodyHash: the static hash, the nonce, the time's text
calculateBodyHash(bodyStaticHash, nonce, time) ==
    sha256(<<bodyStaticHash, nonce, MarshalText(time)>>)

\* bits.LeadingZeros8 of a non-zero byte
RECURSIVE LeadingZeros8(_)
LeadingZeros8(b) == IF b >= 128 THEN 0 ELSE 1 + LeadingZeros8(2 * b)

\* leadingZeros: 8 per leading zero byte, then the zero bits of the first
\* non-zero byte
RECURSIVE leadingZeros(_)
leadingZeros(data) ==
    IF data = <<>> THEN 0
    ELSE IF Head(data) = 0 THEN 8 + leadingZeros(Tail(data))
    ELSE LeadingZeros8(Head(data))

(***************************************************************************)
(* The validator (src/node.go, verifyExceptNonce)                          *)
(*                                                                         *)
(* A block is passed with its body dereferenced:                           *)
(* [Body |-> BlockBody, BodyHash |-> digest].  The result is "nil" or the  *)
(* name of the error returned.                                             *)
(***************************************************************************)
Ok == "nil"

\* Transaction.String / Block.String: the hex text of the BodyHash
String(x) == [hex |-> x.BodyHash]

\* hex.EncodeToString
EncodeToString(digest) == [hex |-> digest]

\* allTransactions[key] = t
MapPut(all, t) == [k \in DOMAIN all \cup {String(t)} |->
                      IF k = String(t) THEN t ELSE all[k]]

\* allTransactions after the transactions txs[i..] were put, in order
RECURSIVE MapPutAll(_, _, _)
MapPutAll(all, txs, i) ==
    IF i > Len(txs) THEN all
    ELSE MapPutAll(MapPut(all, txs[i]), txs, i + 1)

\* the lookup seeded from every transaction of every prior block
RECURSIVE PriorTransactions(_, _, _)
PriorTransactions(all, blocks, b) ==
    IF b > Len(blocks) THEN all
    ELSE PriorTransactions(MapPutAll(all, blocks[b].Body.Transactions, 1), blocks, b + 1)

\* verifyInputs with the signature verified under the NextOwner of the
\* transaction itself instead of the NextOwner of its input
RECURSIVE verifyInputsOwnKey(_, _, _, _)
verifyInputsOwnKey(all, transaction, i, expectedInputValue) ==
    IF i > Len(transaction.Body.InputTransactionHashes)
    THEN [err |-> Ok, expectedInputValue |-> expectedInputValue]
    ELSE LET key == EncodeToString(transaction.Body.InputTransactionHashes[i])
         IN  IF key \notin DOMAIN all
             THEN [err |-> "UnknownInput", expectedInputValue |-> expectedInputValue]
             ELSE IF ~Verify(transaction.Body.NextOwner, transaction.BodyHash,
                             transaction.OwnerSignatures[i])
             THEN [err |-> "InvalidSignature", expectedInputValue |-> expectedInputValue]
             ELSE verifyInputsOwnKey(all, transaction, i + 1,
                                     AddU32(expectedInputValue, OutputValue(all[key])))

\* the loop over the inputs of one transaction, from input i on:
\* [err, expectedInputValue]
RECURSIVE verifyInputs(_, _, _, _)
verifyInputs(all, transaction, i, expectedInputValue) ==
    IF i > Len(transaction.Body.InputTransactionHashes)
    THEN [err |-> Ok, expectedInputValue |-> expectedInputValue]
    ELSE LET key == EncodeToString(transaction.Body.InputTransactionHashes[i])
         IN  IF key \notin DOMAIN all
             THEN [err |-> "UnknownInput", expectedInputValue |-> expectedInputValue]
             ELSE IF ~Verify(all[key].Body.NextOwner, transaction.BodyHash,
                             transaction.OwnerSignatures[i])
             THEN [err |-> "InvalidSignature", expectedInputValue |-> expectedInputValue]
             ELSE verifyInputs(all, transaction, i + 1,
                               AddU32(expectedInputValue, OutputValue(all[key])))

\* verifyTransaction with the check of Change + Fee made before the check of
\* the input value
verifyTransactionChangeFirst(all, transaction) ==
    IF Len(transaction.Body.InputTransactionHashes) # Len(transaction.OwnerSignatures)
    THEN "SignatureCountMismatch"
    ELSE LET r == verifyInputs(all, transaction, 1, 0)
         IN  IF r.err # Ok THEN r.err
             ELSE IF transaction.Body.InputValue
                       < AddU32(transaction.Body.Change, transaction.Body.Fee)
             THEN "InsufficientInputValue"
             ELSE IF r.expectedInputValue # transaction.Body.InputValue
             THEN "ValueMismatch"
             ELSE Ok

\* the checks of one non-coinbase transaction
verifyTransaction(all, transaction) ==
    IF Len(transaction.Body.InputTransactionHashes) # Len(transaction.OwnerSignatures)
    THEN "SignatureCountMismatch"
    ELSE LET r == verifyInputs(all, transaction, 1, 0)
         IN  IF r.err # Ok THEN r.err
             ELSE IF r.expectedInputValue # transaction.Body.InputValue
             THEN "ValueMismatch"
             ELSE IF transaction.Body.InputValue
                       < AddU32(transaction.Body.Change, transaction.Body.Fee)
             THEN "InsufficientInputValue"
             ELSE Ok

\* the loop over newBlock.Body.Transactions[1:], from list position k on:
\* [err, newBlockFees]
RECURSIVE verifyTransactions(_, _, _, _)
verifyTransactions(all, txs, k, newBlockFees) ==
    IF k > Len(txs) THEN [err |-> Ok, newBlockFees |-> newBlockFees]
    ELSE LET e == verifyTransaction(all, txs[k])
         IN  IF e # Ok THEN [err |-> e, newBlockFees |-> newBlockFees]
             ELSE verifyTransactions(MapPut(all, txs[k]), txs, k + 1,
                                     AddU32(newBlockFees, txs[k].Body.Fee))

\* After taken for "not before"
AfterOrEqual(t, u) == t >= u

\* time.Time.After
After(t, u) == t > u

\* verifyLinkage with the head block looked at only from the second block on
verifyLinkageFromSecond(blocks, newBlock) ==
    IF Len(blocks) > 1
    THEN LET headBlock == blocks[Len(blocks)]
         IN  IF newBlock.Body.Id # AddU32(headBlock.Body.Id, 1) THEN "IdMismatch"
             ELSE IF newBlock.Body.PrevHash # <<headBlock.BodyHash>> THEN "PrevHashMismatch"
             ELSE IF ~After(newBlock.Body.Time, headBlock.Body.Time) THEN "NonMonotonicTimestamp"
             ELSE Ok
    ELSE IF newBlock.Body.Id # GenesisId THEN "IdMismatch"
    ELSE Ok

\* the checks of the block's linkage to the chain
verifyLinkage(blocks, newBlock) ==
    IF Len(blocks) > 0
    THEN LET headBlock == blocks[Len(blocks)]
         IN  IF newBlock.Body.Id # AddU32(headBlock.Body.Id, 1) THEN "IdMismatch"
             ELSE IF newBlock.Body.PrevHash # <<headBlock.BodyHash>> THEN "PrevHashMismatch"
             ELSE IF ~After(newBlock.Body.Time, headBlock.Body.Time) THEN "NonMonotonicTimestamp"
             ELSE Ok
    ELSE IF newBlock.Body.Id # GenesisId THEN "IdMismatch"
    ELSE Ok

\* verifyBody with the mining reward left out of the coinbase check
verifyBodyNoReward(blocks, newBlock) ==
    LET txs                 == newBlock.Body.Transactions
        coinBaseTransaction == txs[1]
        all                 == MapPut(PriorTransactions(<<>>, blocks, 1), coinBaseTransaction)
        r                   == verifyTransactions(all, txs, 2, 0)
    IN  IF r.err # Ok THEN r.err
        ELSE IF coinBaseTransaction.Body.InputValue # r.newBlockFees
        THEN "CoinbaseValueMismatch"
        ELSE Ok

\* verifyBody with every transaction of the new block put in the lookup
\* before the loop
verifyBodyAllPut(blocks, newBlock) ==
    LET txs                 == newBlock.Body.Transactions
        coinBaseTransaction == txs[1]
        all                 == MapPutAll(PriorTransactions(<<>>, blocks, 1), txs, 1)
        r                   == verifyTransactions(all, txs, 2, 0)
    IN  IF r.err # Ok THEN r.err
        ELSE IF coinBaseTransaction.Body.InputValue # AddU32(r.newBlockFees, MiningReward)
        THEN "CoinbaseValueMismatch"
        ELSE Ok

\* the transaction checks: the lookup, the non-coinbase loop, the coinbase
verifyBody(blocks, newBlock) ==
    LET txs                 == newBlock.Body.Transactions
        coinBaseTransaction == txs[1]
        all                 == MapPut(PriorTransactions(<<>>, blocks, 1), coinBaseTransaction)
        r                   == verifyTransactions(all, txs, 2, 0)
    IN  IF r.err # Ok THEN r.err
        ELSE IF coinBaseTransaction.Body.InputValue # AddU32(r.newBlockFees, MiningReward)
        THEN "CoinbaseValueMismatch"
        ELSE Ok

\* verifyExceptNonce(blocks, newBlock), with now the value of time.Now()
verifyExceptNonce(blocks, newBlock, now) ==
    IF newBlock.Body.Version # CurrentVersion THEN "VersionMismatch"
    ELSE IF verifyLinkage(blocks, newBlock) # Ok THEN verifyLinkage(blocks, newBlock)
    ELSE IF After(newBlock.Body.Time, now) THEN "FutureTimestamp"
    ELSE IF Len(newBlock.Body.Transactions) = 0 THEN "EmptyBlock"
    ELSE verifyBody(blocks, newBlock)

(***************************************************************************)
(* Blocks (src/types.go)                                                   *)
(***************************************************************************)
\* NewBlock(body), with addr the address of body
NewBlock(body, addr) ==
    LET bodyStaticHash == staticHash(body)
    IN  [Body           |-> addr,
         BodyHash       |-> calculateBodyHash(bodyStaticHash, body.Nonce, body.Time),
         bodyStaticHash |-> bodyStaticHash]

\* the nil *Block
NoBlock == [Body |-> 0, BodyHash |-> sha256(<<>>), bodyStaticHash |-> sha256(<<>>)]

(***************************************************************************)
(* The state                                                               *)
(***************************************************************************)
VARIABLES
    Blocks,     \* n.Chain.Blocks: the sequence of *Block of the node's chain
    heap,       \* the BlockBody objects, by address 1..Len(heap)
    now,        \* the clock read by time.Now()
    sha,        \* the bytes of the digests inspected so far, by digest
    pc,         \* per Mine call: where the call stands
    newBlock,   \* per Mine call: the local newBlock (the block returned)
    nonce,      \* per Mine call: the local nonce
    timeArg,    \* per Mine call: the time.Now() passed to SetFields
    err,        \* per Mine call: the error returned
    tried,      \* per Mine call: the nonces tried so far and the digests they gave (history)
    given,      \* per Mine call: the body given, its Nonce and Time and the length of
                \* the chain at the call (history)
    audit,      \* the tampering of an accepted block and its re-validation
    calls,      \* the number of Mine calls made so far (history)
    made        \* a call of NewTransaction: its arguments, then its result

vars == <<Blocks, heap, now, sha, pc, newBlock, nonce, timeArg, err, tried, given, audit, calls,
          made>>

\* the two Mine calls of the model
Calls == {1, 2}

\* a block with its body dereferenced, as verifyExceptNonce reads it
BlockView(b) == [Body |-> heap[b.Body], BodyHash |-> b.BodyHash]

ChainView == [i \in 1..Len(Blocks) |-> BlockView(Blocks[i])]

\* the digests a hash has in the model: 0, 1 and 16 leading zero bits
Digests == {<<128, 0>>, <<64, 255>>, <<0, 0>>}

(***************************************************************************)
(* Node.Mine (src/node.go), one action per step of the call.  SetFields    *)
(* writes the two fields of the shared body and reads them back, so it is  *)
(* three steps.                                                            *)
(***************************************************************************)
\* nonceIsValid with the comparison turned around
nonceIsValidAtMost(bytes) == leadingZeros(bytes) <= MinimumRequiredLeadingZeros

\* nonceIsValid, on the bytes of block.BodyHash
nonceIsValid(bytes) == leadingZeros(bytes) >= MinimumRequiredLeadingZeros

\* the nonce advanced by two
NextNonceByTwo(n) == (n + 2) % NonceMod

\* nonce++ on a uint32
NextNonce(n) == (n + 1) % NonceMod

\* Mine(newBody), first statement: newBlock, err := NewBlock(newBody)
MineNewBlock(m, addr) ==
    /\ pc[m] = "idle"
    /\ addr \in 1..Len(heap')
    /\ newBlock' = [newBlock EXCEPT ![m] = NewBlock(heap'[addr], addr)]
    /\ given' = [given EXCEPT ![m] =
                    [addr |-> addr, Nonce |-> heap'[addr].Nonce, Time |-> heap'[addr].Time,
                     chain |-> Len(Blocks)]]
    /\ tried' = [tried EXCEPT ![m] = <<>>]
    /\ err' = [err EXCEPT ![m] = Ok]
    /\ pc' = [pc EXCEPT ![m] = "verify"]
    /\ calls < MaxMineCalls
    /\ calls' = calls + 1
    /\ UNCHANGED <<Blocks, now, sha, nonce, timeArg, audit, made>>

\* MineVerify with the error of verifyExceptNonce dropped
MineVerifyErrorDropped(m) ==
    /\ pc[m] = "verify"
    /\ nonce' = [nonce EXCEPT ![m] = 0]
    /\ pc' = [pc EXCEPT ![m] = "setNonce"]
    /\ UNCHANGED <<Blocks, heap, now, sha, timeArg, tried, given, audit, calls, err, newBlock, made>>

\* if err = verifyExceptNonce(n.Chain.Blocks, newBlock); err != nil { return nil, err }
\* var nonce uint32 = 0
MineVerify(m) ==
    /\ pc[m] = "verify"
    /\ LET e == verifyExceptNonce(ChainView, BlockView(newBlock[m]), now)
       IN  IF e # Ok
           THEN /\ err' = [err EXCEPT ![m] = e]
                /\ newBlock' = [newBlock EXCEPT ![m] = NoBlock]
                /\ pc' = [pc EXCEPT ![m] = "returned"]
                /\ UNCHANGED nonce
           ELSE /\ nonce' = [nonce EXCEPT ![m] = 0]
                /\ pc' = [pc EXCEPT ![m] = "setNonce"]
                /\ UNCHANGED <<err, newBlock>>
    /\ UNCHANGED <<Blocks, heap, now, sha, timeArg, tried, given, audit, calls, made>>

\* newBlock.SetFields(nonce, time.Now()): the arguments are evaluated, then
\* b.Body.Nonce = nonce
MineSetNonce(m) ==
    /\ pc[m] = "setNonce"
    /\ timeArg' = [timeArg EXCEPT ![m] = now]
    /\ heap' = [heap EXCEPT ![newBlock[m].Body].Nonce = nonce[m]]
    /\ pc' = [pc EXCEPT ![m] = "setTime"]
    /\ UNCHANGED <<Blocks, now, sha, newBlock, nonce, err, tried, given, audit, calls, made>>

\* b.Body.Time = time
MineSetTime(m) ==
    /\ pc[m] = "setTime"
    /\ heap' = [heap EXCEPT ![newBlock[m].Body].Time = timeArg[m]]
    /\ pc' = [pc EXCEPT ![m] = "hash"]
    /\ UNCHANGED <<Blocks, now, sha, newBlock, nonce, timeArg, err, tried, given, audit, calls, made>>

\* b.BodyHash = calculateBodyHash(b.bodyStaticHash, b.Body.Nonce, b.Body.Time)
MineHash(m) ==
    /\ pc[m] = "hash"
    /\ newBlock' = [newBlock EXCEPT ![m].BodyHash =
                      calculateBodyHash(newBlock[m].bodyStaticHash,
                                        heap[newBlock[m].Body].Nonce,
                                        heap[newBlock[m].Body].Time)]
    /\ pc' = [pc EXCEPT ![m] = "check"]
    /\ UNCHANGED <<Blocks, heap, now, sha, nonce, timeArg, err, tried, given, audit, calls, made>>

\* MineCheck with the block appended to the chain when its nonce is valid
MineCheckAppending(m) ==
    /\ pc[m] = "check"
    /\ \E bytes \in Digests :
         /\ newBlock[m].BodyHash \in DOMAIN sha => bytes = sha[newBlock[m].BodyHash]
         /\ sha' = [h \in DOMAIN sha \cup {newBlock[m].BodyHash} |->
                      IF h = newBlock[m].BodyHash THEN bytes ELSE sha[h]]
         /\ tried' = [tried EXCEPT ![m] =
                         Append(@, [nonce |-> nonce[m], bytes |-> bytes])]
         /\ IF nonceIsValid(bytes)
            THEN /\ pc' = [pc EXCEPT ![m] = "returned"]
                 /\ Blocks' = Append(Blocks, newBlock[m])
                 /\ UNCHANGED <<nonce, err, newBlock>>
            ELSE /\ nonce' = [nonce EXCEPT ![m] = NextNonce(nonce[m])]
                 /\ Blocks' = Blocks
                 /\ IF NextNonce(nonce[m]) = 0
                    THEN /\ err' = [err EXCEPT ![m] = "NonceSpaceExhausted"]
                         /\ newBlock' = [newBlock EXCEPT ![m] = NoBlock]
                         /\ pc' = [pc EXCEPT ![m] = "returned"]
                    ELSE /\ pc' = [pc EXCEPT ![m] = "setNonce"]
                         /\ UNCHANGED <<err, newBlock>>
    /\ UNCHANGED <<heap, now, timeArg, given, audit, calls, made>>

\* if !nonceIsValid(newBlock) { nonce++; if nonce == 0 { return nil, err }; continue }
\* break; return newBlock, nil
MineCheck(m) ==
    /\ pc[m] = "check"
    /\ \E bytes \in Digests :
         /\ newBlock[m].BodyHash \in DOMAIN sha => bytes = sha[newBlock[m].BodyHash]
         /\ sha' = [h \in DOMAIN sha \cup {newBlock[m].BodyHash} |->
                      IF h = newBlock[m].BodyHash THEN bytes ELSE sha[h]]
         /\ tried' = [tried EXCEPT ![m] =
                         Append(@, [nonce |-> nonce[m], bytes |-> bytes])]
         /\ IF nonceIsValid(bytes)
            THEN /\ pc' = [pc EXCEPT ![m] = "returned"]
                 /\ UNCHANGED <<nonce, err, newBlock>>
            ELSE /\ nonce' = [nonce EXCEPT ![m] = NextNonce(nonce[m])]
                 /\ IF NextNonce(nonce[m]) = 0
                    THEN /\ err' = [err EXCEPT ![m] = "NonceSpaceExhausted"]
                         /\ newBlock' = [newBlock EXCEPT ![m] = NoBlock]
                         /\ pc' = [pc EXCEPT ![m] = "returned"]
                    ELSE /\ pc' = [pc EXCEPT ![m] = "setNonce"]
                         /\ UNCHANGED <<err, newBlock>>
    /\ UNCHANGED <<Blocks, heap, now, timeArg, given, audit, calls, made>>

\* the steps of the nonce search
MineLoop(m) == MineSetNonce(m) \/ MineSetTime(m) \/ MineHash(m) \/ MineCheck(m)

(***************************************************************************)
(* The callers: the transactions and bodies they assemble                  *)
(* (testGenesisBlock builds its body this way)                             *)
(***************************************************************************)
\* a coinbase transaction: no inputs, no signing keys, isCoinbase
Coinbase(owner, value) ==
    NewTransaction([InputTransactionHashes |-> <<>>,
                    NextOwner              |-> PublicKey(owner),
                    InputValue             |-> value,
                    Change                 |-> 0,
                    Fee                    |-> 0],
                   <<>>, TRUE)

\* a transaction spending the transactions refs, signed with privs
Spend(refs, privs, owner, inputValue, change, fee) ==
    NewTransaction([InputTransactionHashes |-> TxHashes(refs),
                    NextOwner              |-> PublicKey(owner),
                    InputValue             |-> inputValue,
                    Change                 |-> change,
                    Fee                    |-> fee],
                   privs, FALSE)

\* the body of the block the node's chain may start with, and its block
GenesisCoinbase == Coinbase("bob", MiningReward)

GenesisBody ==
    [Version |-> CurrentVersion, Id |-> GenesisId, PrevHash |-> <<>>,
     Transactions |-> <<GenesisCoinbase>>, Nonce |-> 0, Time |-> 1]

GenesisBlock == NewBlock(GenesisBody, 1)

\* a transaction that is in no block
Ghost == Coinbase("bob", 0)

\* the values a caller writes in a transaction: nothing, half the reward, the
\* reward, one more, and a value that wraps when 5 is added
CoinbaseValues == {5, MiningReward, MiningReward + 1}

Fees == {0, 5, UintMod - 5}

Changes == {0, 5}

InputValues == {5, MiningReward}

\* the private keys a caller signs n inputs with: one per input, or none
SigningKeys(n) == [1..n -> Keys] \cup {<<>>}

\* the second transaction of a candidate whose coinbase is c
FirstSpends(c) ==
    { Spend(refs, privs, "bob", iv, ch, fee) :
        refs \in {<<c>>, <<GenesisCoinbase>>, <<Ghost>>}, privs \in SigningKeys(1),
        iv \in InputValues, ch \in Changes, fee \in Fees }
    \cup
    { Spend(<<c, c>>, privs, "bob", iv, ch, fee) :
        privs \in {<<"alice", "alice">>, <<"alice", "bob">>},
        iv \in InputValues, ch \in Changes, fee \in Fees }

\* the third transaction of a candidate whose first two are c and t
SecondSpends(c, t) ==
    { Spend(<<r>>, <<k>>, "alice", iv, ch, fee) :
        r \in {c, t}, k \in Keys, iv \in InputValues, ch \in Changes, fee \in {0, 5} }

\* the coinbase transactions of the candidates
Coinbases == { Coinbase("alice", v) : v \in CoinbaseValues }

\* the transaction lists of the candidates whose coinbase is one of cbs
TransactionLists(cbs) ==
    {<<>>}
    \cup { <<c>> : c \in cbs }
    \cup UNION { { <<c, t>> : t \in FirstSpends(c) } : c \in cbs }
    \cup UNION { UNION { { <<c, t, u>> : u \in SecondSpends(c, t) }
                         : t \in FirstSpends(c) } : c \in cbs }

\* the transaction lists of testGenesisBlock, and the same with the coinbase
\* off by one
ScenarioLists ==
    { <<Coinbase("alice", v),
        Spend(<<Coinbase("alice", v)>>, <<"alice">>, "bob", MiningReward, 5, 0)>> :
        v \in {MiningReward, MiningReward + 1} }

\* a coinbase of the reward and a transaction spending it together with the
\* coinbase of the genesis block, declaring the uint32 sum of the two outputs
\* or their sum in full
TwoInputLists ==
    { <<Coinbase("alice", MiningReward),
        Spend(<<Coinbase("alice", MiningReward), GenesisCoinbase>>, <<"alice", "bob">>,
              "bob", iv, 0, 0)>> :
        iv \in {(2 * MiningReward) % UintMod, 2 * MiningReward} }

\* a coinbase, alice's spend of it to herself and her spend of that spend to bob,
\* in the order in which each references the one before and in the order in
\* which the second references the third
ForwardLists ==
    LET c == Coinbase("alice", MiningReward)
        u == Spend(<<c>>, <<"alice">>, "alice", MiningReward, 0, 0)
        t == Spend(<<u>>, <<"alice">>, "bob", MiningReward, 0, 0)
    IN  { <<c, u, t>>, <<c, t, u>> }

\* lists whose transactions are not flagged the way their place in the list
\* wants: a first transaction made with isCoinbase false, a first transaction
\* with an input and a signature, a second transaction made with isCoinbase
\* true
ShapeLists ==
    LET c    == Coinbase("alice", MiningReward)
        body == [InputTransactionHashes |-> <<>>, NextOwner |-> PublicKey("alice"),
                 InputValue |-> MiningReward, Change |-> 0, Fee |-> 0]
    IN  { <<NewTransaction(body, <<>>, FALSE)>>,
          <<NewTransaction([body EXCEPT !.InputTransactionHashes = <<Ghost.BodyHash>>],
                           <<"alice">>, TRUE)>>,
          <<c, NewTransaction([body EXCEPT !.InputTransactionHashes = <<c.BodyHash>>,
                                           !.NextOwner = PublicKey("bob"),
                                           !.Change = 5],
                              <<"alice">>, TRUE)>> }

\* the bodies the caller of Mine assembles for the chain as it stands: the
\* right id and PrevHash, the zero time or the present
MinedBodies ==
    { [Version      |-> CurrentVersion,
       Id           |-> Len(Blocks),
       PrevHash     |-> IF Len(Blocks) = 0 THEN <<>> ELSE <<Blocks[Len(Blocks)].BodyHash>>,
       Transactions |-> txs,
       Nonce        |-> 0,
       Time         |-> t] : txs \in ScenarioLists, t \in {0, now} }

\* no body is given to a call that is not made
NotGiven == [addr |-> 0, Nonce |-> 0, Time |-> 0, chain |-> 0]

\* blockBody := &BlockBody{...}; node.Mine(blockBody)
MineFresh(m) ==
    \E body \in MinedBodies :
        /\ heap' = Append(heap, body)
        /\ MineNewBlock(m, Len(heap) + 1)

\* node.Mine(blockBody) on a body that was given to Mine before
MineAgain(m) ==
    \E addr \in 1..Len(heap) :
        /\ heap' = heap
        /\ MineNewBlock(m, addr)

\* the locals of a Mine call that returned are gone
Forget(m) ==
    /\ nonce' = [nonce EXCEPT ![m] = 0]
    /\ timeArg' = [timeArg EXCEPT ![m] = 0]
    /\ tried' = [tried EXCEPT ![m] = <<>>]
    /\ given' = [given EXCEPT ![m] = NotGiven]

\* the caller takes the result of Mine(newBody) and drops it
Return(m) ==
    /\ pc[m] = "returned"
    /\ pc' = [pc EXCEPT ![m] = "idle"]
    /\ newBlock' = [newBlock EXCEPT ![m] = NoBlock]
    /\ err' = [err EXCEPT ![m] = Ok]
    /\ Forget(m)
    /\ UNCHANGED <<Blocks, heap, now, sha, audit, calls, made>>

\* Chain.append of the specification (section 4.5): the block Mine returned is
\* appended if it validates against the chain and meets the difficulty
AppendBlock(m) ==
    /\ pc[m] = "returned"
    /\ err[m] = Ok
    /\ verifyExceptNonce(ChainView, BlockView(newBlock[m]), now) = Ok
    /\ newBlock[m].BodyHash \in DOMAIN sha
    /\ nonceIsValid(sha[newBlock[m].BodyHash])
    /\ Blocks' = Append(Blocks, newBlock[m])
    /\ pc' = [pc EXCEPT ![m] = "idle"]
    /\ newBlock' = [newBlock EXCEPT ![m] = NoBlock]
    /\ Forget(m)
    /\ UNCHANGED <<heap, now, sha, err, audit, calls, made>>

\* the digests held by a block of the chain or by a Mine call
HeldDigests ==
    {Blocks[i].BodyHash : i \in 1..Len(Blocks)} \cup {newBlock[m].BodyHash : m \in Calls}

\* time passes.  A step of SetFields that does not read the clock commutes
\* with a tick, so the ticks are taken before or after such steps; every digest
\* inspected from then on is over a later time, so the bytes of the digests
\* that no block holds are dropped from sha.
Tick ==
    /\ now < MaxClock
    /\ \A m \in Calls : pc[m] \notin {"setTime", "hash", "check"}
    /\ now' = now + 1
    /\ sha' = [h \in DOMAIN sha \cap HeldDigests |-> sha[h]]
    /\ UNCHANGED <<Blocks, heap, pc, newBlock, nonce, timeArg, err, tried, given, audit, calls, made>>

NoAudit == [state |-> "none", err |-> Ok]

\* the nil *Transaction
NoTransaction ==
    [Body            |-> [InputTransactionHashes |-> <<>>, NextOwner |-> PublicKey("alice"),
                          InputValue |-> 0, Change |-> 0, Fee |-> 0],
     BodyHash        |-> sha256(<<>>),
     OwnerSignatures |-> <<>>,
     isCoinbase      |-> FALSE]

\* no call of NewTransaction is looked at
NotMade ==
    [state |-> "none", body |-> NoTransaction.Body, privs |-> <<>>, isCoinbase |-> FALSE,
     transaction |-> NoTransaction]

Idle ==
    /\ sha = <<>>
    /\ pc = [m \in Calls |-> "idle"]
    /\ newBlock = [m \in Calls |-> NoBlock]
    /\ nonce = [m \in Calls |-> 0]
    /\ timeArg = [m \in Calls |-> 0]
    /\ err = [m \in Calls |-> Ok]
    /\ tried = [m \in Calls |-> <<>>]
    /\ given = [m \in Calls |-> NotGiven]
    /\ audit = NoAudit
    /\ calls = 0
    /\ made = NotMade

(***************************************************************************)
(* Spec: one node on the empty chain (NewNode(NewChain(nil))), one Mine    *)
(* call at a time, the caller appending or dropping what Mine returns.     *)
(***************************************************************************)
Init ==
    /\ Blocks = <<>>
    /\ heap = <<>>
    /\ now = 1
    /\ Idle

Next ==
    \/ MineFresh(1)
    \/ MineAgain(1)
    \/ MineVerify(1)
    \/ MineLoop(1)
    \/ Return(1)
    \/ AppendBlock(1)
    \/ Tick

Spec == Init /\ [][Next]_vars

(***************************************************************************)
(* VerifySpec: verifyExceptNonce on the candidates of a bounded family,    *)
(* against the empty chain and against a chain of one block; then the      *)
(* tampering of an accepted block and its re-validation.                   *)
(***************************************************************************)
\* the chains a node is constructed with (NewNode(NewChain(blocks)))
Chains == {<<>>, <<GenesisBlock>>}

\* the block-level fields of a candidate: any combination of right and wrong
Levels ==
    [chain    : Chains,
     Version  : {CurrentVersion, CurrentVersion + 1},
     Id       : {0, 1},
     PrevHash : {<<>>, <<GenesisBlock.BodyHash>>},
     Time     : {1, 2, 3}]

\* the block-level fields that fit the chain, at a time that is not in the future
FittingLevels ==
    { l \in Levels :
        /\ l.Version = CurrentVersion
        /\ l.Id = Len(l.chain)
        /\ l.PrevHash = (IF l.chain = <<>> THEN <<>> ELSE <<GenesisBlock.BodyHash>>)
        /\ l.Time = 2 }

CandidateBody(l, txs) ==
    [Version |-> l.Version, Id |-> l.Id, PrevHash |-> l.PrevHash,
     Transactions |-> txs, Nonce |-> 0, Time |-> l.Time]

\* the chain, and the heap holding the bodies of the chain and of the candidate
Candidate(l, txs) ==
    [Blocks |-> l.chain,
     heap   |-> (IF l.chain = <<>> THEN <<>> ELSE <<GenesisBody>>)
                  \o <<CandidateBody(l, txs)>>]

\* every transaction list at the fitting levels, the lists of the scenario and
\* the empty list at every level
Candidates(levels, lists) == { Candidate(l, txs) : l \in levels, txs \in lists }

\* the candidate is the last body of the heap
CandidateAddr == Len(heap)

\* a caller rewrites one field of a transaction body through the pointer
TamperedBodies(body) ==
    ( { [body EXCEPT !.InputTransactionHashes = ins] :
          ins \in {<<>>, <<GenesisCoinbase.BodyHash>>, <<Ghost.BodyHash>>} }
      \cup { [body EXCEPT !.NextOwner = PublicKey(k)] : k \in Keys }
      \cup { [body EXCEPT !.InputValue = v] : v \in CoinbaseValues }
      \cup { [body EXCEPT !.Change = v] : v \in Changes \cup {1} }
      \cup { [body EXCEPT !.Fee = v] : v \in Fees } )
    \ {body}

\* transaction k of the accepted block is mutated; rehash tells whether its
\* BodyHash is computed again, the signatures staying those over the old hash
Tamper ==
    /\ pc[1] = "setNonce"
    /\ audit.state = "none"
    /\ \E k \in 1..Len(heap[CandidateAddr].Transactions), rehash \in BOOLEAN :
         \E body \in TamperedBodies(heap[CandidateAddr].Transactions[k].Body) :
            heap' = [heap EXCEPT ![CandidateAddr].Transactions[k] =
                       [@ EXCEPT !.Body = body,
                                 !.BodyHash = IF rehash THEN hash(body) ELSE @]]
    /\ audit' = [state |-> "tampered", err |-> Ok]
    /\ UNCHANGED <<Blocks, now, sha, pc, newBlock, nonce, timeArg, err, tried, given, calls, made>>

\* verifyExceptNonce(blocks, block) once more, on the tampered block
Revalidate ==
    /\ audit.state = "tampered"
    /\ audit' = [state |-> "revalidated",
                 err   |-> verifyExceptNonce(ChainView, BlockView(newBlock[1]), now)]
    /\ UNCHANGED <<Blocks, heap, now, sha, pc, newBlock, nonce, timeArg, err, tried, given, calls, made>>

\* the body of block i of a chain that grew one block per tick of the clock
\* from the genesis block, each block with a coinbase and nothing else
RECURSIVE LongChainBody(_)
LongChainBody(i) ==
    [Version      |-> CurrentVersion,
     Id           |-> i - 1,
     PrevHash     |-> IF i = 1 THEN <<>> ELSE <<NewBlock(LongChainBody(i - 1), i - 1).BodyHash>>,
     Transactions |-> <<GenesisCoinbase>>,
     Nonce        |-> 0,
     Time         |-> i]

\* the chain of UintMod blocks: the id of its tip is the largest uint32
LongChain == [i \in 1..UintMod |-> NewBlock(LongChainBody(i), i)]

\* the candidates for the block after the tip of LongChain: id 0 or 1, the
\* PrevHash of the tip, the time of the next tick
LongCandidates ==
    { [Blocks |-> LongChain,
       heap   |-> [i \in 1..UintMod |-> LongChainBody(i)]
                    \o <<[Version      |-> CurrentVersion,
                          Id           |-> id,
                          PrevHash     |-> <<LongChain[UintMod].BodyHash>>,
                          Transactions |-> <<Coinbase("alice", MiningReward)>>,
                          Nonce        |-> 0,
                          Time         |-> UintMod + 1]>>] : id \in {0, 1} }

VerifyInit ==
    /\ \/ /\ \E c \in Candidates(FittingLevels, TransactionLists(Coinbases))
                        \cup Candidates(FittingLevels,
                                         TwoInputLists \cup ForwardLists \cup ShapeLists)
                        \cup Candidates(Levels, ScenarioLists \cup {<<>>}) :
                Blocks = c.Blocks /\ heap = c.heap
          /\ now = 2
       \/ /\ \E c \in LongCandidates : Blocks = c.Blocks /\ heap = c.heap
          /\ now = UintMod + 1
    /\ Idle

\* Mine(newBody) as far as the validation
Validate ==
    /\ heap' = heap
    /\ MineNewBlock(1, CandidateAddr)

VerifyNext ==
    \/ Validate
    \/ MineVerify(1)
    \/ Tamper
    \/ Revalidate

VerifySpec == VerifyInit /\ [][VerifyNext]_vars

(***************************************************************************)
(* TxSpec: NewTransaction on the bodies, signing keys and flags of a       *)
(* bounded family.                                                         *)
(***************************************************************************)
\* the transaction bodies a caller passes to NewTransaction
TransactionBodies ==
    [InputTransactionHashes : {<<>>, <<GenesisCoinbase.BodyHash>>,
                               <<GenesisCoinbase.BodyHash, Ghost.BodyHash>>},
     NextOwner              : {PublicKey(k) : k \in Keys},
     InputValue             : InputValues,
     Change                 : Changes,
     Fee                    : {0, 5}]

\* the private keys a caller passes to NewTransaction: none, one or two
PrivateKeys == {<<>>} \cup [1..1 -> Keys] \cup [1..2 -> Keys]

TxInit ==
    /\ Blocks = <<>>
    /\ heap = <<>>
    /\ now = 1
    /\ sha = <<>>
    /\ pc = [m \in Calls |-> "idle"]
    /\ newBlock = [m \in Calls |-> NoBlock]
    /\ nonce = [m \in Calls |-> 0]
    /\ timeArg = [m \in Calls |-> 0]
    /\ err = [m \in Calls |-> Ok]
    /\ tried = [m \in Calls |-> <<>>]
    /\ given = [m \in Calls |-> NotGiven]
    /\ audit = NoAudit
    /\ calls = 0
    /\ \E body \in TransactionBodies, privs \in PrivateKeys, isCoinbase \in BOOLEAN :
          made = [state |-> "called", body |-> body, privs |-> privs,
                  isCoinbase |-> isCoinbase, transaction |-> NoTransaction]

\* transaction, err := NewTransaction(body, privs, isCoinbase)
MakeTransaction ==
    /\ made.state = "called"
    /\ made' = [made EXCEPT !.state = "returned",
                            !.transaction = NewTransaction(made.body, made.privs,
                                                           made.isCoinbase)]
    /\ UNCHANGED <<Blocks, heap, now, sha, pc, newBlock, nonce, timeArg, err, tried, given,
                   audit, calls>>

TxNext == MakeTransaction

TxSpec == TxInit /\ [][TxNext]_vars

(***************************************************************************)
(* MineSpec: one Mine call on a body assembled for the empty chain, run to *)
(* its return by a scheduler that does not abandon it.                     *)
(***************************************************************************)
MineInit ==
    /\ Blocks = <<>>
    /\ now = 1
    /\ \E body \in MinedBodies : heap = <<body>>
    /\ Idle

\* node.Mine(blockBody)
MineCall(m) ==
    /\ heap' = heap
    /\ MineNewBlock(m, 1)

MineNext ==
    \/ MineCall(1)
    \/ MineVerify(1)
    \/ MineLoop(1)
    \/ Tick

MineSpec ==
    /\ MineInit
    /\ [][MineNext]_vars
    /\ WF_vars(MineVerify(1))
    /\ WF_vars(MineLoop(1))

(***************************************************************************)
(* ConcSpec: two Mine calls over the same *BlockBody, their steps          *)
(* interleaved in any order.                                               *)
(***************************************************************************)
ConcNext ==
    \/ \E m \in Calls : MineCall(m)
    \/ \E m \in Calls : MineVerify(m)
    \/ \E m \in Calls : MineLoop(m)
    \/ Tick

ConcSpec == MineInit /\ [][ConcNext]_vars

(***************************************************************************)
(* Vocabulary of the properties                                            *)
(***************************************************************************)
\* the body given to Mine call m, and its transactions
BodyOf(m) == heap[given[m].addr]

TxsOf(m) == BodyOf(m).Transactions

\* verifyExceptNonce has accepted, or rejected, the body given to call 1, and
\* the body is as it was validated
Accepted == pc[1] = "setNonce" /\ audit.state = "none"

Rejected == pc[1] = "returned" /\ err[1] # "NonceSpaceExhausted" /\ audit.state = "none"

\* the transactions of the chain and of the candidate
VisibleTxs ==
    UNION { {heap[Blocks[b].Body].Transactions[k] :
                k \in 1..Len(heap[Blocks[b].Body].Transactions)} : b \in 1..Len(Blocks) }
    \cup { TxsOf(1)[k] : k \in 1..Len(TxsOf(1)) }

\* the transactions a hash references
Referenced(h) == { r \in VisibleTxs : r.BodyHash = h }

\* the output value of a transaction, in the integers
TrueOutputValue(t) ==
    IF t.isCoinbase THEN t.Body.InputValue
    ELSE t.Body.InputValue - t.Body.Change - t.Body.Fee

\* the hashes a transaction has as inputs
InputsOf(t) == { t.Body.InputTransactionHashes[i] :
                    i \in 1..Len(t.Body.InputTransactionHashes) }

\* two non-coinbase transactions of the candidate reference the same known
\* transaction and together claim more than its output value
DoubleSpend ==
    \E i, j \in 2..Len(TxsOf(1)) :
        /\ i < j
        /\ \E r \in VisibleTxs :
              /\ r.BodyHash \in InputsOf(TxsOf(1)[i]) \cap InputsOf(TxsOf(1)[j])
              /\ TxsOf(1)[i].Body.InputValue + TxsOf(1)[j].Body.InputValue
                    > TrueOutputValue(r)

(***************************************************************************)
(* C1  Double-spend rejection: a candidate in which two non-coinbase       *)
(* transactions reference the same input and together claim more than its  *)
(* output value is never accepted by verifyExceptNonce.                    *)
(* The code sums the outputs per transaction and keeps no record of which  *)
(* outputs were spent, so it accepts such candidates, also when no         *)
(* arithmetic wraps.                                                       *)
(***************************************************************************)
\* in no transaction of the candidate does Change + Fee exceed InputValue
NoWrap ==
    \A k \in 1..Len(TxsOf(1)) :
        TxsOf(1)[k].Body.Change + TxsOf(1)[k].Body.Fee <= TxsOf(1)[k].Body.InputValue

\* the first transaction of the candidate is flagged coinbase and has no
\* inputs and no signatures, and no other transaction is flagged coinbase
WellShaped ==
    /\ TxsOf(1)[1].isCoinbase
    /\ TxsOf(1)[1].Body.InputTransactionHashes = <<>>
    /\ TxsOf(1)[1].OwnerSignatures = <<>>
    /\ \A k \in 2..Len(TxsOf(1)) : ~TxsOf(1)[k].isCoinbase

C1_DoubleSpendRejected == (Accepted /\ NoWrap) => ~DoubleSpend

(***************************************************************************)
(* C4  Ownership: in a candidate accepted by verifyExceptNonce every       *)
(* non-coinbase transaction has one signature per input, each valid over   *)
(* the transaction's BodyHash under the NextOwner of the transaction the   *)
(* input references; a candidate with an input signed by another key is    *)
(* rejected, with InvalidSignature when the forged signatures are all that *)
(* is wrong with it.                                                       *)
(***************************************************************************)
\* input i of transaction t is signed by the owner of what it references
SignedByOwner(t, i) ==
    /\ i <= Len(t.OwnerSignatures)
    /\ Referenced(t.Body.InputTransactionHashes[i]) # {}
    /\ \A r \in Referenced(t.Body.InputTransactionHashes[i]) :
          Verify(r.Body.NextOwner, t.BodyHash, t.OwnerSignatures[i])

\* input i of transaction t references a known transaction and is signed
\* with a key that is not its owner's
Forged(t, i) ==
    /\ i <= Len(t.OwnerSignatures)
    /\ \E r \in Referenced(t.Body.InputTransactionHashes[i]) :
          ~Verify(r.Body.NextOwner, t.BodyHash, t.OwnerSignatures[i])

SomeForged ==
    \E k \in 2..Len(TxsOf(1)) :
        \E i \in 1..Len(TxsOf(1)[k].Body.InputTransactionHashes) : Forged(TxsOf(1)[k], i)

\* transaction t with every forged signature replaced by the owner's
Resigned(t) ==
    [t EXCEPT !.OwnerSignatures =
        [i \in 1..Len(t.OwnerSignatures) |->
            IF i <= Len(t.Body.InputTransactionHashes) /\ Forged(t, i)
            THEN Sign((CHOOSE r \in Referenced(t.Body.InputTransactionHashes[i]) : TRUE)
                          .Body.NextOwner.pub, t.BodyHash)
            ELSE t.OwnerSignatures[i]]]

\* the candidate is accepted once its forged signatures are replaced
OnlyForged ==
    verifyExceptNonce(ChainView,
                      [Body |-> [BodyOf(1) EXCEPT !.Transactions =
                                    [k \in 1..Len(TxsOf(1)) |-> Resigned(TxsOf(1)[k])]],
                       BodyHash |-> sha256(<<>>)],
                      now) = Ok

C4_Ownership ==
    /\ Accepted =>
          \A k \in 2..Len(TxsOf(1)) :
              /\ Len(TxsOf(1)[k].OwnerSignatures)
                    = Len(TxsOf(1)[k].Body.InputTransactionHashes)
              /\ \A i \in 1..Len(TxsOf(1)[k].Body.InputTransactionHashes) :
                    SignedByOwner(TxsOf(1)[k], i)
    /\ (Rejected /\ SomeForged /\ OnlyForged) => err[1] = "InvalidSignature"

\* a second block spending a transaction of the first block with a forged
\* signature was rejected with InvalidSignature
C4_Witness ==
    /\ Rejected
    /\ err[1] = "InvalidSignature"
    /\ Len(Blocks) = 1
    /\ OnlyForged
    /\ \E i \in 1..Len(TxsOf(1)[2].Body.InputTransactionHashes) :
          /\ Forged(TxsOf(1)[2], i)
          /\ TxsOf(1)[2].Body.InputTransactionHashes[i] = GenesisCoinbase.BodyHash

(***************************************************************************)
(* C5  Tamper detection: once a field of a transaction of an accepted      *)
(* block is mutated, verifyExceptNonce on that block against the same      *)
(* chain does not succeed.                                                 *)
(* verifyExceptNonce reads the stored BodyHash and never computes a hash,  *)
(* and a coinbase carries no signature, so tampered blocks re-validate,    *)
(* also when no arithmetic wraps and the coinbase is flagged as one.       *)
(***************************************************************************)
C5_TamperedNeverRevalidates ==
    (audit.state = "revalidated" /\ NoWrap /\ WellShaped) => audit.err # Ok

(***************************************************************************)
(* C6  Coinbase accounting: in an accepted candidate the coinbase's        *)
(* InputValue is MiningReward plus the integer sum of the fees of the      *)
(* other transactions.                                                     *)
(* newBlockFees + MiningReward is computed in uint32 and wraps.            *)
(***************************************************************************)
RECURSIVE SumOfFees(_, _)
SumOfFees(txs, k) ==
    IF k > Len(txs) THEN 0 ELSE txs[k].Body.Fee + SumOfFees(txs, k + 1)

C6_CoinbaseIsRewardPlusFees ==
    Accepted => TxsOf(1)[1].Body.InputValue = MiningReward + SumOfFees(TxsOf(1), 2)

(***************************************************************************)
(* C7  No underflow: in an accepted candidate every non-coinbase           *)
(* transaction has Change + Fee, as integers, at most InputValue, and its  *)
(* OutputValue() is the exact difference.                                  *)
(* The check compares InputValue with the uint32 sum Change + Fee, which   *)
(* wraps.                                                                  *)
(***************************************************************************)
C7_NoUnderflow ==
    Accepted =>
        \A k \in 2..Len(TxsOf(1)) :
            /\ TxsOf(1)[k].Body.Change + TxsOf(1)[k].Body.Fee
                  <= TxsOf(1)[k].Body.InputValue
            /\ ~TxsOf(1)[k].isCoinbase =>
                  OutputValue(TxsOf(1)[k]) = TrueOutputValue(TxsOf(1)[k])

(***************************************************************************)
(* Vocabulary of the properties of Mine                                    *)
(***************************************************************************)
\* Mine call m returned a block and no error
ReturnedBlock(m) == pc[m] = "returned" /\ err[m] = Ok

\* the BodyHash of b is the full hash of its cached static hash and of the
\* nonce and time its body carries
HashIsFull(b) ==
    b.BodyHash = calculateBodyHash(b.bodyStaticHash, heap[b.Body].Nonce, heap[b.Body].Time)

\* the BodyHash of b has the leading zero bits required
MeetsDifficulty(b) ==
    /\ b.BodyHash \in DOMAIN sha
    /\ leadingZeros(sha[b.BodyHash]) >= MinimumRequiredLeadingZeros

(***************************************************************************)
(* C2  Every block Mine returns without error has a BodyHash equal to the  *)
(* full hash of its cached static hash, its Body.Nonce and its Body.Time,  *)
(* and that BodyHash has at least MinimumRequiredLeadingZeros leading zero *)
(* bits.                                                                   *)
(***************************************************************************)
C2_ReturnedBlockIsMined ==
    ReturnedBlock(1) =>
        /\ newBlock[1] # NoBlock
        /\ newBlock[1].bodyStaticHash = staticHash(heap[newBlock[1].Body])
        /\ HashIsFull(newBlock[1])
        /\ MeetsDifficulty(newBlock[1])

\* a block was returned after a nonce had failed
C2_Witness == ReturnedBlock(1) /\ heap[newBlock[1].Body].Nonce > 0

(***************************************************************************)
(* C9  A block Mine returned, carrying the nonce and the time the mining   *)
(* loop left in its body, passes verifyExceptNonce against the same chain, *)
(* when Mine returns and at every later clock time.                        *)
(***************************************************************************)
C9_MinedBlockRevalidates ==
    ReturnedBlock(1) =>
        verifyExceptNonce(ChainView, BlockView(newBlock[1]), now) = Ok

\* a block returned with a time the loop set and not the caller, looked at
\* when the clock has moved on
C9_Witness ==
    /\ ReturnedBlock(1)
    /\ heap[newBlock[1].Body].Time # given[1].Time
    /\ now > heap[newBlock[1].Body].Time

\* the body the genesis scenario mines: current version, id 0, a coinbase of
\* 10 to alice and alice's spend of it to bob (10 in, change 5, fee 0)
GenesisScenarioBody(b) ==
    /\ b.Version = CurrentVersion
    /\ b.Id = GenesisId
    /\ b.PrevHash = <<>>
    /\ b.Transactions =
         <<Coinbase("alice", 10),
           Spend(<<Coinbase("alice", 10)>>, <<"alice">>, "bob", 10, 5, 0)>>

\* Mine was called with the genesis scenario's body on an empty chain, and
\* has returned
GenesisScenarioReturned ==
    /\ pc[1] = "returned"
    /\ given[1].addr > 0
    /\ given[1].chain = 0
    /\ GenesisScenarioBody(heap[given[1].addr])

TrialMet(m, i) == leadingZeros(tried[m][i].bytes) >= MinimumRequiredLeadingZeros

\* the trials of call m so far are of the nonces 0, 1, 2, ... in this order,
\* each once, and none but the last has met the difficulty
TriedInOrder(m) ==
    /\ Len(tried[m]) <= NonceMod
    /\ \A i \in 1..Len(tried[m]) : tried[m][i].nonce = i - 1
    /\ \A i \in 1..(Len(tried[m]) - 1) : ~TrialMet(m, i)

\* what call m returned fits its trials: a block at the first trial that met
\* the difficulty, NonceSpaceExhausted exactly when every nonce was tried and
\* failed, and a validation error before any trial
ReturnFitsTrials(m) ==
    LET n == Len(tried[m]) IN
    /\ err[m] = Ok =>
         /\ n >= 1
         /\ TrialMet(m, n)
         /\ heap[newBlock[m].Body].Nonce = tried[m][n].nonce
    /\ err[m] = "NonceSpaceExhausted" <=>
         /\ n = NonceMod
         /\ \A i \in 1..n : ~TrialMet(m, i)
    /\ err[m] \notin {Ok, "NonceSpaceExhausted"} => n = 0

\* call m is searching: every trial so far failed, and the next nonce is the
\* number of trials made
StillSearching(m) ==
    /\ Len(tried[m]) < NonceMod
    /\ \A i \in 1..Len(tried[m]) : ~TrialMet(m, i)
    /\ nonce[m] = Len(tried[m])

(***************************************************************************)
(* C3  Mine always terminates: a call that has started returns; it tries   *)
(* the nonces 0, 1, 2, ... in increasing order, each at most once, returns *)
(* a block at the first trial whose hash meets the difficulty, and fails   *)
(* with NonceSpaceExhausted exactly when the nonce wraps to 0 after every  *)
(* nonce value has failed, never searching past the wrap.                  *)
(***************************************************************************)
C3_MineTerminates ==
    /\ [](/\ TriedInOrder(1)
          /\ pc[1] = "returned" => ReturnFitsTrials(1)
          /\ pc[1] \in {"setNonce", "setTime", "hash", "check"} => StillSearching(1))
    /\ (pc[1] = "verify") ~> (pc[1] = "returned")

\* every nonce was tried and failed, and Mine gave up at the wrap
C3_Witness ==
    /\ pc[1] = "returned"
    /\ err[1] = "NonceSpaceExhausted"
    /\ Len(tried[1]) = NonceMod

\* C8 as stated: whatever the other call does, each of two Mine calls over
\* one BlockBody that returns a block returns one whose BodyHash is the full
\* hash of the nonce and time its body carries and meets the difficulty
C8_ConcurrentCallsIndependent ==
    \A m \in Calls :
        ReturnedBlock(m) =>
            /\ HashIsFull(newBlock[m])
            /\ MeetsDifficulty(newBlock[m])

(***************************************************************************)
(* C11  Genesis rule: verifyExceptNonce rejects a candidate whose id is    *)
(* not 0 when the chain is empty, and a candidate whose id is 0 when the   *)
(* chain is not empty, whatever the id of the tip.                         *)
(* The id wanted after the tip is headBlock.Body.Id + 1 in uint32, which   *)
(* is 0 after the largest id.                                              *)
(***************************************************************************)
C11_GenesisRule ==
    Accepted => (BodyOf(1).Id = GenesisId <=> Len(Blocks) = 0)

GivenBlock(m) ==
    [Body     |-> [BodyOf(m) EXCEPT !.Nonce = given[m].Nonce, !.Time = given[m].Time],
     BodyHash |-> NewBlock(BodyOf(m), given[m].addr).BodyHash]

\* the errors of verifyExceptNonce
ValidationErrors ==
    {"VersionMismatch", "IdMismatch", "PrevHashMismatch", "NonMonotonicTimestamp",
     "FutureTimestamp", "EmptyBlock", "SignatureCountMismatch", "UnknownInput",
     "InvalidSignature", "ValueMismatch", "InsufficientInputValue",
     "CoinbaseValueMismatch"}

(***************************************************************************)
(* C13  Mine surfaces validation failures unchanged: when verifyExceptNonce *)
(* rejects the body, Mine returns that error and no block, has tried no    *)
(* nonce and has left the body's nonce and time as the caller supplied     *)
(* them; and Mine searches a nonce, and returns a block, only for a body   *)
(* that verifyExceptNonce accepts as supplied.                             *)
(***************************************************************************)
C13_ValidationFailureSurfaces ==
    LET e == verifyExceptNonce(ChainView, GivenBlock(1), now) IN
    /\ (pc[1] = "returned" /\ e # Ok) =>
          /\ err[1] = e
          /\ newBlock[1] = NoBlock
          /\ tried[1] = <<>>
          /\ BodyOf(1).Nonce = given[1].Nonce
          /\ BodyOf(1).Time = given[1].Time
    /\ (pc[1] = "returned" /\ err[1] \in ValidationErrors) => e = err[1]
    /\ (pc[1] \in {"setNonce", "setTime", "hash", "check"} \/ tried[1] # <<>>
          \/ ReturnedBlock(1)) => e = Ok

\* Mine returned the error of the validation of a body it was given a second
\* time, after the chain had grown
C13_Witness ==
    /\ pc[1] = "returned"
    /\ err[1] = "IdMismatch"
    /\ Len(Blocks) = 1
    /\ newBlock[1] = NoBlock

(***************************************************************************)
(* Vocabulary of the order of the checks: each check of verifyExceptNonce  *)
(* as a predicate of the candidate, the chain and the clock                *)
(***************************************************************************)
\* the least element of a non-empty set of numbers
Least(S) == CHOOSE x \in S : \A y \in S : x <= y

\* the transactions of the blocks of the chain, in the order of the chain
ChainTxs ==
    UNION { {heap[Blocks[b].Body].Transactions[j] :
                j \in 1..Len(heap[Blocks[b].Body].Transactions)} : b \in 1..Len(Blocks) }

\* the hash h is that of a transaction of the chain or of one of the first
\* k - 1 transactions of the candidate
KnownBefore(k, h) ==
    \/ \E r \in ChainTxs : r.BodyHash = h
    \/ \E j \in 1..(k - 1) : TxsOf(1)[j].BodyHash = h

\* the transaction the hash h names for transaction k of the candidate: the
\* latest of the candidate's before k, else one of the chain
NamedBefore(k, h) ==
    LET js == { j \in 1..(k - 1) : TxsOf(1)[j].BodyHash = h }
    IN  IF js # {} THEN TxsOf(1)[CHOOSE j \in js : \A i \in js : i <= j]
        ELSE CHOOSE r \in ChainTxs : r.BodyHash = h

\* the uint32 sum of the output values named by the inputs i.. of transaction k
RECURSIVE SumOfInputs(_, _)
SumOfInputs(k, i) ==
    IF i > Len(TxsOf(1)[k].Body.InputTransactionHashes) THEN 0
    ELSE (OutputValue(NamedBefore(k, TxsOf(1)[k].Body.InputTransactionHashes[i]))
            + SumOfInputs(k, i + 1)) % UintMod

\* input i of transaction k fails the check of the lookup or of the signature
BadInput(k, i) ==
    LET t == TxsOf(1)[k]
        h == t.Body.InputTransactionHashes[i]
    IN  \/ ~KnownBefore(k, h)
        \/ ~Verify(NamedBefore(k, h).Body.NextOwner, t.BodyHash, t.OwnerSignatures[i])

\* the first check transaction k of the candidate violates, the transactions
\* before it having passed theirs
TxViolation(k) ==
    LET t   == TxsOf(1)[k]
        n   == Len(t.Body.InputTransactionHashes)
        bad == { i \in 1..n : BadInput(k, i) }
    IN  IF n # Len(t.OwnerSignatures) THEN "SignatureCountMismatch"
        ELSE IF bad # {}
        THEN (IF ~KnownBefore(k, t.Body.InputTransactionHashes[Least(bad)])
              THEN "UnknownInput" ELSE "InvalidSignature")
        ELSE IF SumOfInputs(k, 1) # t.Body.InputValue THEN "ValueMismatch"
        ELSE IF t.Body.InputValue < (t.Body.Change + t.Body.Fee) % UintMod
        THEN "InsufficientInputValue"
        ELSE Ok

\* the checks on the block's own fields, in the order of the claim, each with
\* whether the candidate violates it (the id after the tip is the uint32
\* successor of the tip's id)
BlockChecks ==
    LET b   == BodyOf(1)
        tip == Len(Blocks)
    IN  << <<"VersionMismatch", b.Version # CurrentVersion>>,
           <<"IdMismatch", IF tip = 0 THEN b.Id # GenesisId
                           ELSE b.Id # (heap[Blocks[tip].Body].Id + 1) % UintMod>>,
           <<"PrevHashMismatch", tip > 0 /\ b.PrevHash # <<Blocks[tip].BodyHash>> >>,
           <<"NonMonotonicTimestamp", tip > 0 /\ ~(b.Time > heap[Blocks[tip].Body].Time)>>,
           <<"FutureTimestamp", b.Time > now>>,
           <<"EmptyBlock", Len(b.Transactions) = 0>> >>

\* the earliest violated check in the order of the claim, or nil
FirstViolation ==
    LET blockBad == { c \in 1..Len(BlockChecks) : BlockChecks[c][2] }
        txBad    == { k \in 2..Len(TxsOf(1)) : TxViolation(k) # Ok }
    IN  IF blockBad # {} THEN BlockChecks[Least(blockBad)][1]
        ELSE IF txBad # {} THEN TxViolation(Least(txBad))
        ELSE IF TxsOf(1)[1].Body.InputValue
                  # (MiningReward + SumOfFees(TxsOf(1), 2)) % UintMod
        THEN "CoinbaseValueMismatch"
        ELSE Ok

(***************************************************************************)
(* C14  Fail-fast ordering: verifyExceptNonce returns the error of the     *)
(* earliest violated check in the order version, id, prevHash, time after  *)
(* the tip, time not in the future, non-empty list, then per non-coinbase  *)
(* transaction in list order (signature count; per input in order unknown  *)
(* input then invalid signature; value mismatch; insufficient input        *)
(* value), then the coinbase value; it accepts exactly the candidates that *)
(* violate no check.                                                       *)
(***************************************************************************)
C14_FirstViolationWins ==
    /\ Accepted => FirstViolation = Ok
    /\ Rejected => err[1] = FirstViolation

\* a candidate that violates the value check and the change-and-fee check of
\* a transaction and the coinbase check was rejected for the first of them
C14_Witness ==
    /\ Rejected
    /\ err[1] = "ValueMismatch"
    /\ \E k \in 2..Len(TxsOf(1)) :
          /\ TxViolation(k) = "ValueMismatch"
          /\ TxsOf(1)[k].Body.InputValue
                < (TxsOf(1)[k].Body.Change + TxsOf(1)[k].Body.Fee) % UintMod
    /\ TxsOf(1)[1].Body.InputValue # (MiningReward + SumOfFees(TxsOf(1), 2)) % UintMod

(***************************************************************************)
(* C15  NewTransaction with isCoinbase false returns one signature over    *)
(* the transaction's BodyHash per signing key, in the order of the keys;   *)
(* with isCoinbase true it returns no signature, whatever keys are passed. *)
(* The code signs once per key before it looks at isCoinbase, which it     *)
(* only stores.                                                            *)
(***************************************************************************)
C15_SignaturesPerKey ==
    made.state = "returned" =>
        LET t == made.transaction IN
        /\ t.BodyHash = hash(made.body)
        /\ IF made.isCoinbase
           THEN t.OwnerSignatures = <<>>
           ELSE /\ Len(t.OwnerSignatures) = Len(made.privs)
                /\ \A i \in 1..Len(made.privs) :
                      Verify(PublicKey(made.privs[i]), t.BodyHash, t.OwnerSignatures[i])

\* a step of Mine call m, from the call to the return
MineStep(m) == MineFresh(m) \/ MineAgain(m) \/ MineVerify(m) \/ MineLoop(m)

(***************************************************************************)
(* C16  Neither validation nor mining mutates the chain: the step that     *)
(* runs verifyExceptNonce leaves the chain, the candidate and every        *)
(* transaction as they were, whether it accepts or rejects, and every step *)
(* of Mine leaves Chain.Blocks, its length and each of its blocks as they  *)
(* were, so that the chain is the same wherever a call is abandoned.       *)
(***************************************************************************)
C16_MineLeavesChain ==
    [][ /\ MineStep(1) =>
             /\ Blocks' = Blocks
             /\ ChainView' = ChainView
             /\ \A a \in 1..Len(heap) : heap'[a].Transactions = heap[a].Transactions
        /\ MineVerify(1) =>
             /\ heap' = heap
             /\ newBlock'[1] \in {newBlock[1], NoBlock}
      ]_vars

\* Mine has run to its return on a chain that holds a block
C16_Witness ==
    /\ pc[1] = "returned"
    /\ tried[1] # <<>>
    /\ Len(Blocks) = 1
    /\ given[1].chain = 1

\* the sum, in the integers, of the output values named by the inputs i.. of
\* transaction k of the candidate
RECURSIVE TrueSumOfInputs(_, _)
TrueSumOfInputs(k, i) ==
    IF i > Len(TxsOf(1)[k].Body.InputTransactionHashes) THEN 0
    ELSE OutputValue(NamedBefore(k, TxsOf(1)[k].Body.InputTransactionHashes[i]))
            + TrueSumOfInputs(k, i + 1)

(***************************************************************************)
(* C17  Value match: in a candidate accepted by verifyExceptNonce the      *)
(* InputValue of every non-coinbase transaction is the sum, over its       *)
(* inputs, of OutputValue() of the transaction each input references; a    *)
(* candidate with a transaction declaring another value is not accepted.   *)
(* expectedInputValue is accumulated in uint32 and wraps.                  *)
(***************************************************************************)
C17_ValueMatch ==
    Accepted =>
        \A k \in 2..Len(TxsOf(1)) :
            TxsOf(1)[k].Body.InputValue = TrueSumOfInputs(k, 1)

\* input i of transaction k of the candidate names no transaction of the
\* chain and none of the candidate's before k
Unseen(k, i) == ~KnownBefore(k, TxsOf(1)[k].Body.InputTransactionHashes[i])

\* the first transaction of the candidate with an unseen input, and the first
\* such input of it
UnseenTxs ==
    { k \in 2..Len(TxsOf(1)) :
        \E i \in 1..Len(TxsOf(1)[k].Body.InputTransactionHashes) : Unseen(k, i) }

FirstUnseenInput(k) ==
    Least({ i \in 1..Len(TxsOf(1)[k].Body.InputTransactionHashes) : Unseen(k, i) })

\* the validation gets as far as the first unseen input: the block's own
\* fields pass, the transactions before pass, the signature count matches and
\* the inputs before it pass
ReachesUnseen ==
    LET k == Least(UnseenTxs) IN
    /\ \A c \in 1..Len(BlockChecks) : ~BlockChecks[c][2]
    /\ \A j \in 2..(k - 1) : TxViolation(j) = Ok
    /\ Len(TxsOf(1)[k].OwnerSignatures) = Len(TxsOf(1)[k].Body.InputTransactionHashes)
    /\ \A i \in 1..(FirstUnseenInput(k) - 1) : ~BadInput(k, i)

(***************************************************************************)
(* C18  Visible inputs: in a candidate accepted by verifyExceptNonce every *)
(* input of a non-coinbase transaction references a transaction of a       *)
(* block of the chain, the candidate's coinbase, or a transaction earlier  *)
(* in the candidate's list, which has passed its own checks; a candidate   *)
(* with an input that references a later transaction of the list or no     *)
(* known transaction is rejected, with UnknownInput when the validation    *)
(* gets as far as that input.                                              *)
(***************************************************************************)
C18_VisibleInputs ==
    /\ Accepted =>
          /\ UnseenTxs = {}
          /\ \A k \in 2..Len(TxsOf(1)) : TxViolation(k) = Ok
    /\ (Rejected /\ Len(TxsOf(1)) > 0 /\ UnseenTxs # {} /\ ReachesUnseen) =>
          err[1] = "UnknownInput"

\* a candidate whose second transaction references its third was rejected
\* with UnknownInput
C18_Witness ==
    /\ Rejected
    /\ err[1] = "UnknownInput"
    /\ Len(TxsOf(1)) = 3
    /\ TxsOf(1)[2].Body.InputTransactionHashes = <<TxsOf(1)[3].BodyHash>>

(***************************************************************************)
(* C19  Coinbase shape: in every candidate accepted by verifyExceptNonce   *)
(* the first transaction is flagged coinbase and has no inputs and no      *)
(* signatures, and no later transaction is flagged coinbase.               *)
(* verifyExceptNonce takes Transactions[0] for the coinbase and never      *)
(* reads isCoinbase, the inputs or the signatures of the first             *)
(* transaction, nor isCoinbase of the others.                              *)
(***************************************************************************)
C19_CoinbaseShape == Accepted => WellShaped

\* no Mine call is running: each is not made, or has returned
AtRest == \A m \in Calls : pc[m] \in {"idle", "returned"}

(***************************************************************************)
(* C20  bodyHash is always derived: after any sequence of Mine calls, also *)
(* calls given the same BlockBody again, every Block has a BodyHash equal  *)
(* to the full hash of its cached static hash and of the Nonce and Time of *)
(* its body, and a cached static hash equal to staticHash of its body.     *)
(* A Block holds a pointer to the caller's BlockBody, and SetFields on     *)
(* another Block over the same body rewrites its Nonce and Time.           *)
(***************************************************************************)
C20_BodyHashDerived ==
    AtRest =>
        \A m \in Calls :
            newBlock[m] # NoBlock =>
                /\ newBlock[m].bodyStaticHash = staticHash(heap[newBlock[m].Body])
                /\ HashIsFull(newBlock[m])

====
